---- MODULE Spec2Model ----
(***************************************************************************)
(* Leader election on a directed ring (network.py).                        *)
(*                                                                         *)
(* Rank 0 is the drawer (the Monitor); ranks 1..number_of_communicators    *)
(* are the communicators (the ring nodes).  Every process is sequential    *)
(* and blocks only in comm.recv and in comm.bcast; comm.send is buffered.  *)
(* One action is one process running from one blocking call to the next.   *)
(* Messages with tag ALGORITHM_TAG travel in chan, one FIFO queue per       *)
(* (sender, receiver) pair; messages with tag DRAWING_TAG travel in drawq,  *)
(* one FIFO queue per sending communicator.                                 *)
(***************************************************************************)
EXTENDS Integers, Sequences, FiniteSets, TLC

\* Largest ring that is explored.
MaxN == 4
\* Ids are drawn from 1..MaxId.
MaxId == 4
\* Largest number of lines of an input file that is explored.
MaxLines == 2
\* Largest ring that is explored together with the command lines and files.
MaxArgN == 2

VARIABLES
    argv,                    \* sys.argv[1:]
    file,                    \* the file argv[1] names: [exists, lines]
    error,                   \* the Error finish was called with, or the exception raised
    number_of_communicators, \* comm.Get_size() - 1
    vxs,                     \* the id list the drawer broadcasts
    bcast,                   \* TRUE once the drawer has broadcast vxs
    pc,                      \* pc[r]: the call communicator r is blocked in
    state_data,              \* state_data[r]: [ci, state] of communicator r
    win,                     \* win[r]
    acn,                     \* acn[r]
    chan,                    \* chan[<<s, d>>]: ALGORITHM_TAG messages s -> d
    drawq,                   \* drawq[r]: DRAWING_TAG messages r -> 0
    dpc,                     \* the call the drawer is blocked in
    is_running,              \* drawer_worker's loop flag
    i,                       \* drawer_worker's index in the for loop
    node_colors,             \* drawer_worker's node colours
    labels,                  \* drawer_worker's labels
    sent_log,                \* history: what each communicator sent on the ring
    rcvd_log,                \* history: what each communicator received from the ring
    drawn_log                \* history: what the drawer received from each communicator

vars == << argv, file, error, number_of_communicators, vxs, bcast, pc, state_data, win, acn, chan,
           drawq, dpc, is_running, i, node_colors, labels, sent_log, rcvd_log,
           drawn_log >>

nodeVars == << pc, state_data, win, acn, chan, sent_log, rcvd_log >>
drawerVars == << dpc, is_running, i, node_colors, labels, drawn_log >>

Ranks == 1..number_of_communicators

Range(s) == { s[k] : k \in 1..Len(s) }

\* The id lists get_vxs can return for n communicators: n distinct ids.
IdLists(n) == { s \in [1..n -> 1..MaxId] : \A a, b \in 1..n : a # b => s[a] # s[b] }

----------------------------------------------------------------------------
\* Command lines and input files.

LF == "\n"

\* The value of each decimal digit.
DigitVal ==
    ("0" :> 0) @@ ("1" :> 1) @@ ("2" :> 2) @@ ("3" :> 3) @@ ("4" :> 4) @@
    ("5" :> 5) @@ ("6" :> 6) @@ ("7" :> 7) @@ ("8" :> 8) @@ ("9" :> 9)

\* A path at which os.path.exists is False.
NoFile == [exists |-> FALSE, lines |-> << >>]

\* The lines `for line in open(...)` can yield that are explored: a line is
\* the sequence of its characters, its line feed included.
Lines ==
    { << "1", LF >>, << "2", LF >>, << "3", LF >>, << "1", "2", LF >>,
      << "x", LF >>, << LF >>, << "2" >>, << "1", "2" >>, << "1", "x" >> }

Terminated(line) == line[Len(line)] = LF

\* The line sequences of a file: only the last line can lack its line feed.
FileContents ==
    UNION { { l \in [1..n -> Lines] : \A k \in 1..(n - 1) : Terminated(l[k]) } :
            n \in 0..MaxLines }

\* The command lines that are explored.
Argvs ==
    { << >>, << "random" >>, << "random", "x" >>, << "from_file" >>,
      << "from_file", "ids.txt" >>, << "from_file", "ids.txt", "x" >>,
      << "bogus" >> }

\* line[:-1]
ButLast(line) == SubSeq(line, 1, Len(line) - 1)

\* str.isdecimal(): not empty, and decimal digits only.
isdecimal(s) == Len(s) > 0 /\ \A k \in 1..Len(s) : s[k] \in DOMAIN DigitVal

\* What int() reads: the text without surrounding white space.
Stripped(s) == IF Len(s) > 0 /\ s[Len(s)] = LF THEN ButLast(s) ELSE s

RECURSIVE DecimalValue(_)
DecimalValue(s) ==
    IF Len(s) = 0 THEN 0 ELSE 10 * DecimalValue(ButLast(s)) + DigitVal[s[Len(s)]]

\* int(line) raises ValueError unless the stripped text is a decimal number.
IntRaises(line) == ~isdecimal(Stripped(line))

int(line) == DecimalValue(Stripped(line))

\* get_vxs, lines 121-129: the loop over the lines from line k on, vxs being
\* the ids read so far.
RECURSIVE ReadLines(_, _, _)
ReadLines(lines, k, read) ==
    IF k > Len(lines) THEN [out |-> "ok", error |-> "none", vxs |-> read]
    ELSE IF ~isdecimal(ButLast(lines[k]))
    THEN [out |-> "abort", error |-> "ci_is_not_an_int", vxs |-> read]
    ELSE IF IntRaises(lines[k])
    THEN [out |-> "raise", error |-> "ValueError", vxs |-> read]
    ELSE IF int(lines[k]) \in Range(read)
    THEN [out |-> "abort", error |-> "ci_duplication", vxs |-> read]
    ELSE ReadLines(lines, k + 1, Append(read, int(lines[k])))

\* finish(msg): print, comm.Abort(), exit(1).
finish(msg) == [out |-> "abort", error |-> msg, vxs |-> << >>]

\* get_vxs, lines 108-141.  out is "ok" (vxs is returned), "sample" (vxs is a
\* sample of n ids), "abort" (finish was called) or "raise" (an exception
\* left get_vxs).
get_vxs(av, f, n) ==
    IF Len(av) < 1 THEN finish("invalid_number_of_arguments")
    ELSE IF av[1] = "from_file"
    THEN IF Len(av) # 2 THEN finish("invalid_number_of_arguments")
         ELSE IF ~f.exists THEN finish("file_not_found")
         ELSE LET res == ReadLines(f.lines, 1, << >>)
              IN  IF res.out # "ok" THEN res
                  ELSE IF Len(res.vxs) # n
                  THEN finish("invalid_number_of_communicators")
                  ELSE res
    ELSE IF av[1] = "random"
    THEN IF Len(av) # 1 THEN finish("invalid_number_of_arguments")
         ELSE [out |-> "sample", error |-> "none", vxs |-> << >>]
    ELSE finish("invalid_mode")

----------------------------------------------------------------------------
\* Ring addressing.

\* Variant: no wrap-around at the last rank.
dstNoWrap(rank, n) == rank + 1

dst(rank, n) == IF rank = n THEN 1 ELSE rank + 1

src(rank, n) == IF rank = 1 THEN n ELSE rank - 1

\* comm.send(algo_data, dest=next_node, tag=ALGORITHM_TAG) by process rank.
send(ch, rank, next_node, algo_data) ==
    [ch EXCEPT ![<<rank, next_node>>] = Append(@, algo_data)]

\* comm.send(data, dest=0, tag=DRAWING_TAG) by process rank.
send_data_to_drawer(dq, rank, data) == [dq EXCEPT ![rank] = Append(@, data)]

\* The queue comm.recv(source=prev_node, tag=ALGORITHM_TAG) of process rank reads.
inbox(rank) == chan[<<src(rank, number_of_communicators), rank>>]

next_node(rank) == dst(rank, number_of_communicators)

----------------------------------------------------------------------------
\* The decisions of communicator_worker.

\* Variant: win starts at -1 whatever the ring size.
InitialWinAlwaysUnset(n, own) == -1

\* win = -1 if number_of_communicators > 1 else vxs[rank - 1]
InitialWin(n, own) == IF n > 1 THEN -1 ELSE own

\* Variant: <= in place of ==.
OwnProbeReturnedOrSmaller(a, ci) == a <= ci

\* if acn == state_data['ci']
OwnProbeReturned(a, ci) == a = ci

\* Variant: the comparison with data['two'] is left out.
AdoptWithoutTwo(a, ci, two) == a < ci

\* Variant: both comparisons turned round.
AdoptLarger(a, ci, two) == a > ci /\ a > two

\* if acn < state_data['ci'] and acn < data['two']
Adopt(a, ci, two) == a < ci /\ a < two

\* Variant: the key 'one' in place of 'small'.
UpdateWinOnProbe(data, w) == IF "one" \in DOMAIN data THEN data.one ELSE w

\* Variant: the announced value is not recorded.
UpdateWinIgnored(data, w) == w

\* win = data.get('small', win)
UpdateWin(data, w) == IF "small" \in DOMAIN data THEN data.small ELSE w

\* if win == vxs[rank - 1]: leader, else: loser
FinalState(w, own) == IF w = own THEN "leader" ELSE "loser"

\* Variant: a passive communicator stamps its own candidate on what it relays.
RelayedRestamped(data, sd) ==
    IF "one" \in DOMAIN data THEN [one |-> sd.ci]
    ELSE IF "two" \in DOMAIN data THEN [two |-> sd.ci]
    ELSE data

\* The message a passive communicator hands to send: data itself.
Relayed(data, sd) == data

\* Variant: the winner is compared with the candidate, not with the own id.
FinalizedByCandidate(sd, w, own) ==
    [sd EXCEPT !.state = IF w = sd.ci THEN "leader" ELSE "loser"]

\* Variant: the winner is also stored as the candidate.
FinalizedStoringWinner(sd, w, own) ==
    [sd EXCEPT !.state = FinalState(w, own), !.ci = w]

\* state_data after the loop has ended.
Finalized(sd, w, own) == [sd EXCEPT !.state = FinalState(w, own)]

LogSent(r, data, relay) ==
    [sent_log EXCEPT ![r] = Append(@, [data |-> data, relay |-> relay])]

LogRcvd(r, data) ==
    [rcvd_log EXCEPT ![r] = Append(@, [data |-> data, state |-> state_data[r].state])]

----------------------------------------------------------------------------
\* The state in which get_vxs has returned to drawer_worker (line 145), here
\* for the command line "random"; every communicator waits in comm.bcast.
Init ==
    /\ argv = << "random" >>
    /\ file = NoFile
    /\ error = "none"
    /\ number_of_communicators \in 1..MaxN
    /\ vxs \in IdLists(number_of_communicators)
    /\ bcast = FALSE
    /\ pc = [r \in Ranks |-> "bcast"]
    /\ state_data = [r \in Ranks |-> [ci |-> -1, state |-> "active"]]
    /\ win = [r \in Ranks |-> -1]
    /\ acn = [r \in Ranks |-> -1]
    /\ chan = [p \in Ranks \X Ranks |-> << >>]
    /\ drawq = [r \in Ranks |-> << >>]
    /\ dpc = "bcast"
    /\ is_running = FALSE
    /\ i = 0
    /\ node_colors = << >>
    /\ labels = << >>
    /\ sent_log = [r \in Ranks |-> << >>]
    /\ rcvd_log = [r \in Ranks |-> << >>]
    /\ drawn_log = [r \in Ranks |-> << >>]

\* The start of the program: the drawer is about to call get_vxs (line 145) on
\* some command line and some file.
InitArgs ==
    /\ argv \in Argvs
    /\ file \in IF argv = << "from_file", "ids.txt" >>
                THEN {NoFile} \cup { [exists |-> TRUE, lines |-> l] : l \in FileContents }
                ELSE {NoFile}
    /\ error = "none"
    /\ number_of_communicators \in 1..MaxArgN
    /\ vxs = << >>
    /\ bcast = FALSE
    /\ pc = [r \in Ranks |-> "bcast"]
    /\ state_data = [r \in Ranks |-> [ci |-> -1, state |-> "active"]]
    /\ win = [r \in Ranks |-> -1]
    /\ acn = [r \in Ranks |-> -1]
    /\ chan = [p \in Ranks \X Ranks |-> << >>]
    /\ drawq = [r \in Ranks |-> << >>]
    /\ dpc = "get_vxs"
    /\ is_running = FALSE
    /\ i = 0
    /\ node_colors = << >>
    /\ labels = << >>
    /\ sent_log = [r \in Ranks |-> << >>]
    /\ rcvd_log = [r \in Ranks |-> << >>]
    /\ drawn_log = [r \in Ranks |-> << >>]

----------------------------------------------------------------------------
\* drawer_worker, line 145: vxs = get_vxs(argv).  finish aborts every process
\* (comm.Abort); an exception ends the drawer alone and leaves the
\* communicators waiting in comm.bcast.
GetVxs ==
    /\ dpc = "get_vxs"
    /\ LET res == get_vxs(argv, file, number_of_communicators)
       IN  CASE res.out = "ok" ->
                  /\ vxs' = res.vxs
                  /\ dpc' = "bcast"
                  /\ UNCHANGED << error, pc >>
             [] res.out = "sample" ->
                  /\ vxs' \in IdLists(number_of_communicators)
                  /\ dpc' = "bcast"
                  /\ UNCHANGED << error, pc >>
             [] res.out = "abort" ->
                  /\ error' = res.error
                  /\ dpc' = "aborted"
                  /\ pc' = [r \in Ranks |-> "aborted"]
                  /\ UNCHANGED vxs
             [] res.out = "raise" ->
                  /\ error' = res.error
                  /\ dpc' = "crashed"
                  /\ UNCHANGED << vxs, pc >>
    /\ UNCHANGED << argv, file, number_of_communicators, bcast, state_data, win,
                    acn, chan, drawq, is_running, i, node_colors, labels,
                    sent_log, rcvd_log, drawn_log >>

\* drawer_worker, lines 145-154: broadcast vxs, set up the picture, and enter
\* the while loop (or skip it when there is one communicator).
DrawerBcast ==
    /\ dpc = "bcast"
    /\ bcast' = TRUE
    /\ node_colors' = [k \in 1..Len(vxs) |-> "active_node_color"]
    /\ labels' = [v \in Range(vxs) |-> v]
    /\ is_running' = (number_of_communicators > 1)
    /\ i' = 0
    /\ dpc' = IF number_of_communicators > 1 THEN "recv" ELSE "done"
    /\ UNCHANGED << argv, file, error, number_of_communicators, vxs, drawq, drawn_log >>
    /\ UNCHANGED nodeVars

\* Variant: the for loop is left as soon as is_running is False.
NextPollBreak(idx, running) ==
    IF ~running THEN [dpc |-> "done", i |-> idx]
    ELSE IF idx < Len(vxs) THEN [dpc |-> "recv", i |-> idx]
    ELSE [dpc |-> "recv", i |-> 0]

\* The control flow of the polling loop after the event of communicator idx
\* (1-based) has been handled: the for loop goes on to the next communicator;
\* after the last one the while condition is tested.
NextPoll(idx, running) ==
    IF idx < Len(vxs) THEN [dpc |-> "recv", i |-> idx]
    ELSE IF running THEN [dpc |-> "recv", i |-> 0]
    ELSE [dpc |-> "done", i |-> idx]

\* drawer_worker, lines 156-171: one comm.recv of the for loop and what
\* follows it up to the next comm.recv (or up to the end of the while loop).
DrawerRecv ==
    /\ dpc = "recv"
    /\ drawq[i + 1] # << >>
    /\ LET src_communicator == i + 1
           data == Head(drawq[src_communicator])
           v    == vxs[src_communicator]
           stop == "need_stop" \in DOMAIN data
           ok   == "state" \in DOMAIN data /\ "ci" \in DOMAIN data
           running == IF stop THEN FALSE ELSE is_running
           np   == NextPoll(src_communicator, running)
       IN  /\ drawq' = [drawq EXCEPT ![src_communicator] = Tail(@)]
           /\ drawn_log' = [drawn_log EXCEPT ![src_communicator] = Append(@, data)]
           /\ is_running' = running
           /\ IF stop
              THEN /\ UNCHANGED << node_colors, labels >>
                   /\ dpc' = np.dpc
                   /\ i' = np.i
              ELSE IF ~ok
              THEN /\ UNCHANGED << node_colors, labels, i >>
                   /\ dpc' = "assert_failed"
              ELSE /\ node_colors' = IF data.state = "passive"
                                     THEN [node_colors EXCEPT ![src_communicator] = "passive_node_color"]
                                     ELSE node_colors
                   /\ labels' = [labels EXCEPT ![v] = data.ci]
                   /\ dpc' = np.dpc
                   /\ i' = np.i
    /\ UNCHANGED << argv, file, error, number_of_communicators, vxs, bcast >>
    /\ UNCHANGED nodeVars

----------------------------------------------------------------------------
\* communicator_worker from the test of the while condition (line 187) to its
\* next blocking call: with win still -1 an active communicator sends its
\* probe (lines 188-191) and a passive one goes to receive (line 213); with
\* win set the communicator finalizes and reports need_stop (lines 217-222).
\* sd, w, ch, dq, sl are the values the iteration that has just ended left.
LoopTest(r, sd, w, ch, dq, sl) ==
    IF w = -1
    THEN IF sd.state = "active"
         THEN /\ state_data' = [state_data EXCEPT ![r] = sd]
              /\ chan' = send(ch, r, next_node(r), [one |-> sd.ci])
              /\ sent_log' = [sl EXCEPT ![r] = Append(@, [data |-> [one |-> sd.ci], relay |-> FALSE])]
              /\ drawq' = send_data_to_drawer(dq, r, sd)
              /\ pc' = [pc EXCEPT ![r] = "recv_one"]
         ELSE /\ state_data' = [state_data EXCEPT ![r] = sd]
              /\ chan' = ch
              /\ sent_log' = sl
              /\ drawq' = dq
              /\ pc' = [pc EXCEPT ![r] = "recv_passive"]
    ELSE /\ state_data' = [state_data EXCEPT ![r] = Finalized(sd, w, vxs[r])]
         /\ chan' = ch
         /\ sent_log' = sl
         /\ drawq' = send_data_to_drawer(dq, r, [need_stop |-> TRUE])
         /\ pc' = [pc EXCEPT ![r] = "done"]

\* comm.recv(source=prev_node, tag=ALGORITHM_TAG) by process rank takes the
\* head of its inbox.
recv(ch, rank) ==
    [ch EXCEPT ![<<src(rank, number_of_communicators), rank>>] = Tail(@)]

\* communicator_worker, lines 178-187: receive vxs, set win and state_data,
\* and test the while condition for the first time.
NodeStart(r) ==
    /\ pc[r] = "bcast"
    /\ bcast
    /\ LET own == vxs[r]
           w   == InitialWin(number_of_communicators, own)
           sd  == [ci |-> own, state |-> "active"]
       IN  /\ win' = [win EXCEPT ![r] = w]
           /\ LoopTest(r, sd, w, chan, drawq, sent_log)
    /\ UNCHANGED << argv, file, error, number_of_communicators, vxs, bcast, acn, rcvd_log >>
    /\ UNCHANGED drawerVars

\* communicator_worker, lines 191-200 / 191-205: the probe of the predecessor
\* arrives; announce when it is the own candidate, else pass it on as 'two'.
RecvOne(r) ==
    /\ pc[r] = "recv_one"
    /\ inbox(r) # << >>
    /\ LET data == Head(inbox(r))
           sd   == state_data[r]
       IN  /\ rcvd_log' = LogRcvd(r, data)
           /\ IF "one" \notin DOMAIN data
              THEN /\ chan' = recv(chan, r)
                   /\ pc' = [pc EXCEPT ![r] = "assert_failed"]
                   /\ UNCHANGED << acn, win, drawq, sent_log >>
              ELSE LET a == data.one
                   IN  /\ acn' = [acn EXCEPT ![r] = a]
                       /\ drawq' = send_data_to_drawer(drawq, r, sd)
                       /\ IF OwnProbeReturned(a, sd.ci)
                          THEN /\ chan' = send(recv(chan, r), r, next_node(r), [small |-> a])
                               /\ sent_log' = LogSent(r, [small |-> a], FALSE)
                               /\ win' = [win EXCEPT ![r] = a]
                               /\ pc' = [pc EXCEPT ![r] = "recv_small"]
                          ELSE /\ chan' = send(recv(chan, r), r, next_node(r), [two |-> a])
                               /\ sent_log' = LogSent(r, [two |-> a], FALSE)
                               /\ UNCHANGED win
                               /\ pc' = [pc EXCEPT ![r] = "recv_two"]
    /\ UNCHANGED << argv, file, error, number_of_communicators, vxs, bcast, state_data >>
    /\ UNCHANGED drawerVars

\* communicator_worker, lines 200-201 and on to the while test: the
\* announcement comes back to the communicator that sent it.
RecvSmall(r) ==
    /\ pc[r] = "recv_small"
    /\ inbox(r) # << >>
    /\ LET data == Head(inbox(r))
       IN  /\ rcvd_log' = LogRcvd(r, data)
           /\ IF "small" \notin DOMAIN data
              THEN /\ chan' = recv(chan, r)
                   /\ pc' = [pc EXCEPT ![r] = "assert_failed"]
                   /\ UNCHANGED << state_data, drawq, sent_log >>
              ELSE LoopTest(r, state_data[r], win[r], recv(chan, r), drawq, sent_log)
    /\ UNCHANGED << argv, file, error, number_of_communicators, vxs, bcast, acn, win >>
    /\ UNCHANGED drawerVars

\* communicator_worker, lines 205-211 and on to the while test: the second
\* value arrives; adopt acn and stay active, or turn passive.
RecvTwo(r) ==
    /\ pc[r] = "recv_two"
    /\ inbox(r) # << >>
    /\ LET data == Head(inbox(r))
           sd   == state_data[r]
       IN  /\ rcvd_log' = LogRcvd(r, data)
           /\ IF "two" \notin DOMAIN data
              THEN /\ chan' = recv(chan, r)
                   /\ pc' = [pc EXCEPT ![r] = "assert_failed"]
                   /\ UNCHANGED << state_data, drawq, sent_log >>
              ELSE LET sd2 == IF Adopt(acn[r], sd.ci, data.two)
                              THEN [sd EXCEPT !.ci = acn[r]]
                              ELSE [sd EXCEPT !.state = "passive"]
                   IN  LoopTest(r, sd2, win[r], recv(chan, r), drawq, sent_log)
    /\ UNCHANGED << argv, file, error, number_of_communicators, vxs, bcast, acn, win >>
    /\ UNCHANGED drawerVars

\* communicator_worker, lines 213-215 and on to the while test: a passive
\* communicator receives a message, records an announced winner and sends the
\* message on.
RecvPassive(r) ==
    /\ pc[r] = "recv_passive"
    /\ inbox(r) # << >>
    /\ LET data == Head(inbox(r))
           sd   == state_data[r]
           w    == UpdateWin(data, win[r])
           out  == Relayed(data, sd)
       IN  /\ rcvd_log' = LogRcvd(r, data)
           /\ win' = [win EXCEPT ![r] = w]
           /\ LoopTest(r, sd, w,
                       send(recv(chan, r), r, next_node(r), out),
                       send_data_to_drawer(drawq, r, sd),
                       LogSent(r, out, TRUE))
    /\ UNCHANGED << argv, file, error, number_of_communicators, vxs, bcast, acn >>
    /\ UNCHANGED drawerVars

Node(r) ==
    \/ NodeStart(r)
    \/ RecvOne(r)
    \/ RecvSmall(r)
    \/ RecvTwo(r)
    \/ RecvPassive(r)

Next ==
    \/ DrawerBcast
    \/ DrawerRecv
    \/ \E r \in Ranks : NodeStart(r)
    \/ \E r \in Ranks : RecvOne(r)
    \/ \E r \in Ranks : RecvSmall(r)
    \/ \E r \in Ranks : RecvTwo(r)
    \/ \E r \in Ranks : RecvPassive(r)

Spec == Init /\ [][Next]_vars

\* The program from its start, get_vxs included.
NextArgs == GetVxs \/ Next

SpecArgs == InitArgs /\ [][NextArgs]_vars

\* Every process is an operating-system process of its own: a process that can
\* take a step (its receive has a message waiting) eventually takes it.
FairSpec ==
    /\ Spec
    /\ WF_vars(DrawerBcast \/ DrawerRecv)
    /\ \A r \in 1..MaxN : WF_vars(r \in Ranks /\ Node(r))

----------------------------------------------------------------------------
\* Vocabulary of the properties.

AllDone == \A r \in Ranks : pc[r] = "done"

Started(r) == pc[r] # "bcast"

role(r) == state_data[r].state

ci(r) == state_data[r].ci

Leaders == { r \in Ranks : role(r) = "leader" }

MinOf(s) == CHOOSE m \in Range(s) : \A v \in Range(s) : m <= v

MaxOf(s) == CHOOSE m \in Range(s) : \A v \in Range(s) : m >= v

\* The Announce messages on the ring links: <<link, position in its queue>>.
AnnouncesInFlight ==
    UNION { { <<p, k>> : k \in { j \in 1..Len(chan[p]) : "small" \in DOMAIN chan[p][j] } } :
            p \in Ranks \X Ranks }

\* The positions of sent_log[r] at which r sent an Announce of its own.
Originated(r) ==
    { k \in 1..Len(sent_log[r]) :
        ~sent_log[r][k].relay /\ "small" \in DOMAIN sent_log[r][k].data }

Originators == { r \in Ranks : Originated(r) # {} }

----------------------------------------------------------------------------
\* C1: when all nodes have finished communicator_worker, exactly one node has
\* role leader and every other node has role loser.
C1_OneLeaderOthersLosers ==
    AllDone => /\ Cardinality(Leaders) = 1
               /\ \A r \in Ranks \ Leaders : role(r) = "loser"

C1_Witness ==
    /\ number_of_communicators >= 3
    /\ AllDone
    /\ \E r \in Ranks : role(r) = "leader"
    /\ \E r \in Ranks : role(r) = "loser"

\* C2 as stated: the node that ends in role leader holds the maximum id.
C2_LeaderHoldsMaximum ==
    AllDone => \A r \in Leaders : vxs[r] = MaxOf(vxs)

\* C2 amended: when all nodes have finished, the node in role leader is the
\* node holding the minimum id, and no other node is leader.
C2_LeaderHoldsMinimum ==
    AllDone => \A r \in Ranks : (role(r) = "leader") <=> (vxs[r] = MinOf(vxs))

C2_Witness ==
    /\ number_of_communicators >= 2
    /\ AllDone
    /\ \E r \in Leaders : vxs[r] = MinOf(vxs) /\ vxs[r] # MaxOf(vxs)

\* C3: under fair scheduling every node eventually leaves its loop in a
\* terminal role (leader or loser) and the drawer's polling loop eventually
\* ends; no receive blocks forever.
C3_Termination ==
    <>( /\ AllDone
        /\ \A r \in Ranks : role(r) \in {"leader", "loser"}
        /\ dpc = "done" )

C3_Witness ==
    /\ number_of_communicators >= 3
    /\ AllDone
    /\ \A r \in Ranks : role(r) \in {"leader", "loser"}
    /\ dpc = "done"

\* C4: in a ring of one node, the node ends in role leader and no protocol
\* message is ever sent on any ring link.
C4_SingleNodeSilentLeader ==
    number_of_communicators = 1 =>
        /\ \A p \in Ranks \X Ranks : chan[p] = << >>
        /\ \A r \in Ranks : sent_log[r] = << >>
        /\ \A r \in Ranks : Started(r) => pc[r] = "done" /\ role(r) = "leader"

C4_Witness ==
    /\ number_of_communicators = 1
    /\ pc[1] = "done"
    /\ role(1) = "leader"
    /\ sent_log[1] = << >>

\* C5: a started node's candidate is a member of the original id set, is its
\* own id to begin with, and no step increases it.
C5_Step ==
    \A r \in Ranks :
        /\ (~Started(r) /\ Started(r)') => ci(r)' = vxs[r]
        /\ Started(r) => /\ ci(r) \in Range(vxs)
                          /\ ci(r)' \in Range(vxs)
                          /\ ci(r)' <= ci(r)

C5_CandidateNeverIncreases == [][C5_Step]_vars

C5_Witness ==
    \E r \in Ranks : Started(r) /\ role(r) = "active" /\ ci(r) < vxs[r]

\* C6: what a passive node sends is, message for message and in the same
\* order, what it received while passive, variant and payload unchanged; and
\* a step in which a passive node relays leaves its candidate unchanged.
RelayedOut(r) ==
    LET log == SelectSeq(sent_log[r], LAMBDA e : e.relay)
    IN  [k \in 1..Len(log) |-> log[k].data]

ReceivedPassive(r) ==
    LET log == SelectSeq(rcvd_log[r], LAMBDA e : e.state = "passive")
    IN  [k \in 1..Len(log) |-> log[k].data]

C6_Step ==
    \A r \in Ranks :
        (pc[r] = "recv_passive" /\ rcvd_log'[r] # rcvd_log[r]) =>
            /\ ci(r)' = ci(r)
            /\ chan'[<<r, next_node(r)>>] =
                   Append(chan[<<r, next_node(r)>>], Head(inbox(r)))

C6_RelayUnchanged ==
    /\ [](\A r \in Ranks : RelayedOut(r) = ReceivedPassive(r))
    /\ [][C6_Step]_vars

C6_Witness ==
    \E r \in Ranks :
        /\ Len(RelayedOut(r)) >= 3
        /\ "two" \in DOMAIN RelayedOut(r)[2]
        /\ "small" \in DOMAIN RelayedOut(r)[Len(RelayedOut(r))]

\* C7: once passive a node is never active again, once leader or loser its
\* role never changes, and its candidate changes only in steps taken while
\* its role is active.
C7_Step ==
    \A r \in Ranks :
        /\ role(r) = "passive" => role(r)' \in {"passive", "leader", "loser"}
        /\ role(r) \in {"leader", "loser"} => role(r)' = role(r)
        /\ (Started(r) /\ ci(r)' # ci(r)) => role(r) = "active"

C7_RoleMovesForward == [][C7_Step]_vars

C7_Witness ==
    /\ \E r \in Ranks : role(r) = "leader" /\ Len(RelayedOut(r)) > 0
    /\ \E r \in Ranks : role(r) = "loser" /\ Len(RelayedOut(r)) > 0 /\ ci(r) # vxs[r]

\* C8 as stated: at most one Announce is in flight, and over a whole run
\* exactly one node originates an Announce.
C8_OneAnnounceOneOriginator ==
    /\ Cardinality(AnnouncesInFlight) <= 1
    /\ Cardinality(Originators) <= 1
    /\ AllDone => Cardinality(Originators) = 1

\* C8 amended: at most one Announce is in flight in every state; at most one
\* node originates an Announce, it does so once, and when all nodes have
\* finished exactly one node has originated one if the ring has two or more
\* nodes, and none has if the ring has one node.
C8_OneAnnounceOneOriginatorInRings ==
    /\ Cardinality(AnnouncesInFlight) <= 1
    /\ Cardinality(Originators) <= 1
    /\ \A r \in Ranks : Cardinality(Originated(r)) <= 1
    /\ AllDone => Cardinality(Originators) = IF number_of_communicators >= 2 THEN 1 ELSE 0

C8_Witness ==
    /\ number_of_communicators >= 3
    /\ Cardinality(AnnouncesInFlight) = 1
    /\ Cardinality(Originators) = 1
    /\ \E r \in Ranks \ Originators : win[r] # -1

\* C9 as stated: the node that injects the Announce is the node whose own
\* assigned id is the maximum of all ids.
C9_OriginatorHoldsMaximum ==
    \A r \in Originators : vxs[r] = MaxOf(vxs)

\* C9 amended: the node that injects the Announce is the one node whose
\* candidate has become the minimum of all ids; the Announce carries that
\* minimum, every other node is passive or finished by then, and the
\* injecting node's own assigned id is not the minimum.
C9_OriginatorCarriesMinimum ==
    \A r \in Originators :
        /\ ci(r) = MinOf(vxs)
        /\ \A k \in Originated(r) : sent_log[r][k].data.small = MinOf(vxs)
        /\ vxs[r] # MinOf(vxs)
        /\ \A q \in Ranks \ {r} : Started(q) /\ role(q) # "active"

C9_Witness ==
    \E r \in Originators :
        /\ number_of_communicators >= 3
        /\ vxs[r] # MaxOf(vxs)
        /\ ci(r) = MinOf(vxs)

\* C10: with more than one node, in the state where the drawer has left its
\* while loop a need_stop event has been received from every node, so the
\* loop does not end while some node has not yet emitted one.
StopReceived(r) ==
    \E k \in 1..Len(drawn_log[r]) : "need_stop" \in DOMAIN drawn_log[r][k]

C10_LoopEndsAfterAllStops ==
    (number_of_communicators > 1 /\ dpc = "done") =>
        \A r \in Ranks : pc[r] = "done" /\ StopReceived(r)

C10_Witness ==
    /\ number_of_communicators >= 3
    /\ dpc = "done"
    /\ \A r \in Ranks : StopReceived(r)

\* The events communicator r has emitted so far, received by the drawer or not.
Emitted(r) == drawn_log[r] \o drawq[r]

\* C11: the event with the stopped flag that a node emits carries the node's
\* finalized role (leader or loser) and its candidate, so that once the
\* drawer's loop has ended it has observed leader from exactly one node and
\* loser from every other node.
C11_StopEventCarriesRole ==
    \A r \in Ranks : \A k \in 1..Len(Emitted(r)) :
        LET e == Emitted(r)[k]
        IN  "need_stop" \in DOMAIN e =>
                /\ "state" \in DOMAIN e
                /\ "ci" \in DOMAIN e
                /\ e.state \in {"leader", "loser"}
                /\ e.state = role(r)
                /\ e.ci = ci(r)

----------------------------------------------------------------------------
\* The text of a line, without its line feed.
TextOf(line) == IF Terminated(line) THEN ButLast(line) ELSE line

\* The errors that match what is wrong with the command line and the file.
Defects ==
    IF Len(argv) < 1 THEN {"invalid_number_of_arguments"}
    ELSE IF argv[1] = "random"
    THEN IF Len(argv) # 1 THEN {"invalid_number_of_arguments"} ELSE {}
    ELSE IF argv[1] # "from_file" THEN {"invalid_mode"}
    ELSE IF Len(argv) # 2 THEN {"invalid_number_of_arguments"}
    ELSE IF ~file.exists THEN {"file_not_found"}
    ELSE LET ls == file.lines
             ks == 1..Len(ls)
         IN  (IF \E k \in ks : ~isdecimal(TextOf(ls[k]))
              THEN {"ci_is_not_an_int"} ELSE {})
             \cup
             (IF \E j, k \in ks :
                    /\ j # k
                    /\ isdecimal(TextOf(ls[j]))
                    /\ isdecimal(TextOf(ls[k]))
                    /\ DecimalValue(TextOf(ls[j])) = DecimalValue(TextOf(ls[k]))
              THEN {"ci_duplication"} ELSE {})
             \cup
             (IF Len(ls) # number_of_communicators
              THEN {"invalid_number_of_communicators"} ELSE {})

\* No communicator has received the id list, sent a message or emitted an event.
NothingRan ==
    /\ ~bcast
    /\ \A r \in Ranks : ~Started(r) \/ pc[r] = "aborted"
    /\ \A r \in Ranks : sent_log[r] = << >> /\ drawq[r] = << >> /\ drawn_log[r] = << >>
    /\ \A p \in Ranks \X Ranks : chan[p] = << >>

\* C12: when id assignment fails (argument count, mode, missing file,
\* non-integer line, duplicate id, count of ids), get_vxs ends in the abort
\* outcome with the matching error, and no node receives an id list, no
\* protocol message is sent and no status event is emitted.
C12_FailureAbortsWithMatchingError ==
    (dpc # "get_vxs" /\ Defects # {}) =>
        /\ dpc = "aborted"
        /\ error \in Defects
        /\ NothingRan

\* What does hold: a run in which get_vxs did not raise, and whose file has no
\* last line without a line feed, ends as C12 says.
C12_HoldsForTerminatedFiles ==
    (dpc # "get_vxs" /\ Defects # {} /\ \A k \in 1..Len(file.lines) : Terminated(file.lines[k])) =>
        /\ dpc = "aborted"
        /\ error \in Defects
        /\ NothingRan

\* With whatever input, nothing runs unless get_vxs returned.
C12_NothingRunsAfterFailure ==
    dpc \in {"aborted", "crashed"} => NothingRan

----------------------------------------------------------------------------
\* The rank reached from rank r by following dst k times.
RECURSIVE Follow(_, _, _)
Follow(r, n, k) == IF k = 0 THEN r ELSE Follow(dst(r, n), n, k - 1)

\* C13: with ring index = rank - 1, dst is the rank of index (i + 1) mod N and
\* src the rank of index (i - 1) mod N; src and dst are mutually inverse;
\* following dst from any node visits all N nodes before returning to it; and
\* messages travel on the links r -> dst(r) only.
C13_RingAddressing ==
    LET n == number_of_communicators
    IN  /\ \A r \in Ranks :
            /\ dst(r, n) = (((r - 1) + 1) % n) + 1
            /\ src(r, n) = (((r - 1) + n - 1) % n) + 1
            /\ src(dst(r, n), n) = r
            /\ dst(src(r, n), n) = r
            /\ { Follow(r, n, k) : k \in 0..(n - 1) } = Ranks
            /\ Follow(r, n, n) = r
        /\ \A p \in Ranks \X Ranks : chan[p] # << >> => p[2] = ((p[1] - 1 + 1) % n) + 1

C13_Witness ==
    /\ number_of_communicators >= 3
    /\ chan[<< number_of_communicators, 1 >>] # << >>
    /\ chan[<< 1, 2 >>] # << >>
    /\ \E r \in Ranks : pc[r] = "recv_passive"

----------------------------------------------------------------------------
\* What communicator r received while it was active, in order.
ReceivedActive(r) ==
    LET log == SelectSeq(rcvd_log[r], LAMBDA e : e.state = "active")
    IN  [k \in 1..Len(log) |-> log[k].data]

\* C14: no assertion fails.  What an active node receives after its probe is
\* a 'one', what it receives after passing on a 'two' is a 'two', what the
\* announcing node receives after its 'small' is a 'small', and every event
\* without need_stop carries 'state' and 'ci'.
C14_NoAssertionFails ==
    /\ dpc # "assert_failed"
    /\ \A r \in Ranks :
        /\ pc[r] # "assert_failed"
        /\ \A k \in 1..Len(ReceivedActive(r)) :
              LET data == ReceivedActive(r)[k]
              IN  IF k % 2 = 1 THEN "one" \in DOMAIN data
                  ELSE IF r \in Originators /\ k = Len(ReceivedActive(r))
                       THEN "small" \in DOMAIN data
                       ELSE "two" \in DOMAIN data
        /\ \A k \in 1..Len(Emitted(r)) :
              "need_stop" \notin DOMAIN Emitted(r)[k] =>
                  "state" \in DOMAIN Emitted(r)[k] /\ "ci" \in DOMAIN Emitted(r)[k]

C14_Witness ==
    /\ dpc = "done"
    /\ \E r \in Originators :
          /\ pc[r] = "done"
          /\ Len(ReceivedActive(r)) >= 4
          /\ "two" \in DOMAIN ReceivedActive(r)[2]
          /\ "small" \in DOMAIN ReceivedActive(r)[Len(ReceivedActive(r))]
    /\ \E r \in Ranks : Len(drawn_log[r]) >= 3

----------------------------------------------------------------------------
\* The number of probes ('one' of its own) communicator r has sent: the
\* number of election rounds it has entered as an active node.
Probes(r) ==
    Cardinality({ k \in 1..Len(sent_log[r]) :
                    ~sent_log[r][k].relay /\ "one" \in DOMAIN sent_log[r][k].data })

\* The nodes that entered round j as active nodes.
ActiveIn(j) == { r \in Ranks : Probes(r) >= j }

\* Round j is over: every node has gone on to a later round, has turned
\* passive, or has seen its own probe return.
RoundOver(j) ==
    \A r \in Ranks :
        Started(r) /\ (Probes(r) > j \/ role(r) # "active" \/ win[r] # -1)

CeilLog2(n) == CHOOSE e \in 0..n : 2^e >= n /\ \A f \in 0..(e - 1) : 2^f < n

\* C15: a round that starts with k >= 2 active nodes leaves at most k div 2
\* and at least one of them active, and at most ceil(log2 N) rounds start
\* with two or more active nodes.
C15_RoundsHalveActiveNodes ==
    /\ \A j \in Ranks :
          LET k == Cardinality(ActiveIn(j))
          IN  (RoundOver(j) /\ k >= 2) =>
                  /\ Cardinality(ActiveIn(j + 1)) >= 1
                  /\ Cardinality(ActiveIn(j + 1)) <= k \div 2
                  /\ ActiveIn(j + 1) \subseteq ActiveIn(j)
    /\ Cardinality({ j \in Ranks : Cardinality(ActiveIn(j)) >= 2 })
          <= CeilLog2(number_of_communicators)

C15_Witness ==
    /\ AllDone
    /\ Cardinality(ActiveIn(1)) = 4
    /\ Cardinality(ActiveIn(2)) = 2
    /\ Cardinality(ActiveIn(3)) = 1
    /\ ActiveIn(4) = {}

----------------------------------------------------------------------------
\* The positions of sent_log[r] at which r sent a probe of its own.
ProbePositions(r) ==
    { k \in 1..Len(sent_log[r]) :
        ~sent_log[r][k].relay /\ "one" \in DOMAIN sent_log[r][k].data }

\* The value of the probe communicator r sent in round j (r in ActiveIn(j)).
ProbeValue(r, j) ==
    LET k == CHOOSE p \in ProbePositions(r) :
                 Cardinality({ q \in ProbePositions(r) : q <= p }) = j
    IN  sent_log[r][k].data.one

\* The nodes that, while active, received a probe equal to their candidate.
OwnProbeReceivers ==
    { r \in Ranks : \E k \in 1..Len(rcvd_log[r]) :
        /\ rcvd_log[r][k].state = "active"
        /\ "one" \in DOMAIN rcvd_log[r][k].data
        /\ k % 2 = 1
        /\ rcvd_log[r][k].data.one = ProbeValue(r, (k + 1) \div 2) }

\* An active node receives a probe equal to its candidate only when every
\* other node is passive and the probe is its own of that round, relayed
\* unchanged by every other node.
SoleActiveSeesOwnProbe ==
    \A r \in OwnProbeReceivers :
        /\ r \in Originators
        /\ \A q \in Ranks \ {r} :
              /\ Started(q)
              /\ role(q) # "active"
              /\ Probes(q) < Probes(r)
              /\ \E k \in 1..Len(RelayedOut(q)) :
                    RelayedOut(q)[k] = [one |-> ProbeValue(r, Probes(r))]

\* C16 as stated: the above, and in every state the candidates of the nodes
\* that are active are pairwise distinct.
C16_ActiveCandidatesDistinct ==
    /\ SoleActiveSeesOwnProbe
    /\ \A r, q \in Ranks :
          (r # q /\ Started(r) /\ Started(q) /\ role(r) = "active" /\ role(q) = "active")
              => ci(r) # ci(q)

\* C16 amended: the above, and the candidates the nodes active in the same
\* election round hold in that round (the values of their probes of that
\* round) are pairwise distinct.
C16_RoundCandidatesDistinct ==
    /\ SoleActiveSeesOwnProbe
    /\ \A j \in Ranks : \A r, q \in ActiveIn(j) :
          r # q => ProbeValue(r, j) # ProbeValue(q, j)

C16_Witness ==
    /\ Cardinality(ActiveIn(2)) >= 2
    /\ \E r \in OwnProbeReceivers : pc[r] = "recv_small"
    /\ \E r, q \in Ranks :
          r # q /\ role(r) = "active" /\ role(q) = "passive" /\ ci(r) = ci(q)

----------------------------------------------------------------------------
\* The values of the Announce messages sent or relayed so far.
Announced ==
    UNION { { sent_log[r][k].data.small :
                k \in { j \in 1..Len(sent_log[r]) : "small" \in DOMAIN sent_log[r][j].data } } :
            r \in Ranks }

\* C17: in a ring of two or more nodes the Announce carries the minimum of
\* all ids, every node records that minimum as win, and the node that
\* finalizes as leader is the node whose own id is the minimum, which is not
\* the node that originated the Announce.
C17_AnnounceCarriesMinimum ==
    number_of_communicators >= 2 =>
        /\ Announced \subseteq {MinOf(vxs)}
        /\ \A r \in Ranks : win[r] \in {-1, MinOf(vxs)}
        /\ \A r \in Ranks : pc[r] = "done" =>
              /\ win[r] = MinOf(vxs)
              /\ (role(r) = "leader") <=> (vxs[r] = MinOf(vxs))
              /\ (role(r) = "leader" => r \notin Originators)

C17_Witness ==
    /\ number_of_communicators >= 3
    /\ AllDone
    /\ \E r \in Ranks : role(r) = "leader" /\ vxs[r] = MinOf(vxs) /\ r \notin Originators
    /\ \E r \in Originators : role(r) = "loser" /\ win[r] = MinOf(vxs)

----------------------------------------------------------------------------
\* The number of election rounds so far: the most probes any node has sent.
Rounds == CHOOSE n \in { Probes(r) : r \in Ranks } : \A r \in Ranks : Probes(r) <= n

IsStop(e) == "need_stop" \in DOMAIN e

\* C18: every node sends two protocol messages per election round, as an
\* active node or as a relay, so all nodes have sent the same number of
\* messages, and of events before need_stop, when they stop; and in the
\* polling round in which the drawer receives a first need_stop, what it
\* receives from every node is need_stop.
C18_SameNumberOfMessages ==
    /\ \A r \in Ranks :
          /\ Len(sent_log[r]) <= 2 * Rounds
          /\ Cardinality({ k \in 1..Len(Emitted(r)) : ~IsStop(Emitted(r)[k]) }) = Len(sent_log[r])
          /\ pc[r] = "done" =>
                /\ Len(sent_log[r]) = 2 * Rounds
                /\ Len(Emitted(r)) = 2 * Rounds + 1
                /\ IsStop(Emitted(r)[Len(Emitted(r))])
    /\ \A r, q \in Ranks :
          \A k \in 1..Len(drawn_log[r]) :
              k <= Len(drawn_log[q]) => (IsStop(drawn_log[r][k]) <=> IsStop(drawn_log[q][k]))

C18_Witness ==
    /\ number_of_communicators >= 3
    /\ Rounds >= 3
    /\ dpc = "done"
    /\ \A r \in Ranks : Len(sent_log[r]) = 2 * Rounds /\ Len(drawn_log[r]) = 2 * Rounds + 1
    /\ \E r \in Ranks : Len(RelayedOut(r)) = 2 * Rounds - 2

----------------------------------------------------------------------------
\* C19: a passive node stops right after relaying the Announce and the
\* originator takes the returning Announce off its link, so when all nodes
\* have terminated no protocol message is left on any ring link, and (two or
\* more nodes) when the drawer's loop has ended no event is left unreceived.
C19_NothingLeftUndelivered ==
    /\ \A r \in Ranks : pc[r] = "done" /\ number_of_communicators >= 2 =>
          /\ "small" \in DOMAIN rcvd_log[r][Len(rcvd_log[r])].data
          /\ r \notin Originators =>
                /\ sent_log[r][Len(sent_log[r])].relay
                /\ "small" \in DOMAIN sent_log[r][Len(sent_log[r])].data
    /\ AllDone => \A p \in Ranks \X Ranks : chan[p] = << >>
    /\ (number_of_communicators >= 2 /\ dpc = "done") =>
          \A r \in Ranks : drawq[r] = << >>

C19_Witness ==
    /\ number_of_communicators >= 3
    /\ AllDone
    /\ dpc = "done"
    /\ \A r \in Ranks : drawq[r] = << >> /\ Len(drawn_log[r]) >= 5
    /\ \A p \in Ranks \X Ranks : chan[p] = << >>

----------------------------------------------------------------------------
\* The election as a function of the id list alone, computed round by round
\* with all active nodes in step.

\* The nearest rank in act going upstream from q, q included.
RECURSIVE Upstream(_, _, _)
Upstream(q, act, n) == IF q \in act THEN q ELSE Upstream(src(q, n), act, n)

PrevActive(r, act, n) == Upstream(src(r, n), act, n)

\* act: the active ranks of round j; cand: every rank's candidate.
RECURSIVE Elect(_, _, _, _)
Elect(act, cand, j, n) ==
    IF Cardinality(act) <= 1
    THEN [cand |-> cand, rounds |-> j, originators |-> act]
    ELSE LET a(r)   == cand[PrevActive(r, act, n)]
             two(r) == cand[PrevActive(PrevActive(r, act, n), act, n)]
             stay   == { r \in act : a(r) < cand[r] /\ a(r) < two(r) }
         IN  Elect(stay, [r \in 1..n |-> IF r \in stay THEN a(r) ELSE cand[r]], j + 1, n)

\* The outcome for the id list s: each node's final role and candidate, the
\* originator of the Announce and the number of messages each node sends.
Outcome(s) ==
    LET n == Len(s)
    IN  IF n = 1
        THEN [role |-> [r \in 1..n |-> "leader"], ci |-> [r \in 1..n |-> s[r]],
              originators |-> {}, sent |-> [r \in 1..n |-> 0]]
        ELSE LET e == Elect(1..n, [r \in 1..n |-> s[r]], 1, n)
                 w == CHOOSE v \in { e.cand[r] : r \in e.originators } : TRUE
             IN  [role |-> [r \in 1..n |-> IF s[r] = w THEN "leader" ELSE "loser"],
                  ci   |-> e.cand,
                  originators |-> e.originators,
                  sent |-> [r \in 1..n |-> 2 * e.rounds]]

\* C20: the outcome depends on the id list only, not on the interleaving:
\* every complete run on the id list vxs ends with the roles, the candidates,
\* the Announce originator and the per-node message counts of Outcome(vxs).
C20_OutcomeIndependentOfSchedule ==
    AllDone =>
        LET o == Outcome(vxs)
        IN  /\ \A r \in Ranks : role(r) = o.role[r]
            /\ \A r \in Ranks : ci(r) = o.ci[r]
            /\ Originators = o.originators
            /\ \A r \in Ranks : Len(sent_log[r]) = o.sent[r]

C20_Witness ==
    /\ number_of_communicators >= 4
    /\ AllDone
    /\ Outcome(vxs).sent[1] >= 6
    /\ \E r \in Ranks : ci(r) # vxs[r] /\ r \notin Originators
    /\ dpc = "recv"

====
